---- MODULE Spec2Model ----
(***************************************************************************)
(* Model of the scheduling engine of the runtest scripts:                  *)
(*   scripts/core/threads.py  ExtendedThread, BinExecutor, BrokenProcess,   *)
(*                            MultiThreads, SequentialThreads,              *)
(*                            ParallelThreads                               *)
(*   scripts/runtest_module.py  run_local_mode, run_pbs_mode                *)
(*                                                                         *)
(* Spec is a local run, SpecFair a local run of a fail-fast pool under     *)
(* fair scheduling of its threads, SpecTwoSubtasks a local run of a        *)
(* fail-fast pool in which a chain of two subtasks runs beside another     *)
(* chain, SpecPbs a remote run (run_pbs_mode, one thread polling the       *)
(* batch queue).                                                           *)
(*                                                                         *)
(* Every Python thread is a process of the model: the main thread          *)
(* (run_local_mode), the pool controller (ParallelThreads.run), one thread *)
(* per chain (SequentialThreads.run) and one thread per subtask            *)
(* (BinExecutor.run).  A step of the model is a group of statements of one *)
(* thread that touches shared state at most once, so that the reads and    *)
(* the writes of `running` and `stopped` interleave as the bytecode does;  *)
(* statements that touch only the thread's own objects are joined to the   *)
(* step before them.                                                       *)
(*                                                                         *)
(* A returncode is a set of integers: {} is Python's None and {v} is the   *)
(* integer v.  The code is Python 2: None orders below every integer.      *)
(***************************************************************************)
EXTENDS Integers, Sequences, FiniteSets, TLC

\* ---- bounds of the model -------------------------------------------------
NumChains == 2
MaxThreads == 3
MaxN == 2
NumObservers == 1
NumJobs == 2
MaxRounds == 2

\* exit statuses a child process can end with on its own (-11: died on SIGSEGV)
ExitCodes == {-11, 0, 2}
\* exit status of a child process terminated by ProcessUtils.secure_kill
KilledCodes == {-15}

\* returncodes finish_pbs_job can compute for a job
FinishCodes == {0, 1}

\* ---- program constants ---------------------------------------------------
BrokenReturncode == 666
\* what run_pbs_mode exits with when no returncode was stored
NoReturncode == 2

None == {}

Chains == 1 .. NumChains
Tasks == Chains \X (1 .. MaxThreads - 1)

VARIABLES
    n,                \* ParallelThreads.n
    poolStopOnError,  \* runner.stop_on_error
    chainStopOnError, \* seq.stop_on_error
    total,            \* number of chains run_local_mode added to the pool
    lens,             \* number of subtasks added to each chain
    threads,          \* BinExecutor.threads, the process registry
    mainPc,           \* position of run_local_mode
    exitCode,         \* value run_local_mode returns
    poolPc,           \* position of the controller thread
    poolOver,         \* runner._is_over
    poolIndex,        \* runner.index
    running,          \* runner.running
    poolStopped,      \* runner.stopped
    poolRcs,          \* runner.returncodes
    startOrder,       \* chains in the order run_next called start() on them
    sysExit,          \* sys.exit(1) has been raised by the sweep
    chPc,             \* position of each chain thread
    chTmp,            \* runner.running as the chain thread loaded it for += / -=
                      \* (0 while the thread holds no loaded value)
    chOver,           \* chain._is_over
    chIndex,          \* chain.index
    chRunning,        \* chain.running
    chStopped,        \* chain.stopped
    chRcs,            \* chain.returncodes
    sweepPos,         \* cursor of the sweep a chain thread executes (0: none)
    sweepSeen,        \* what executor.process was at each liveness check of
                      \* the sweep a chain thread executes, in visiting order
    termReq,          \* the tasks ProcessUtils.secure_kill has been called for
    tPc,              \* position of each subtask thread
    tOver,            \* task._is_over
    tRc,              \* task._returncode
    proc,             \* task.process
    tLog,             \* events of the task, in the order they happened
    numJobs,          \* number of jobs run_pbs_mode added to multijob
    changedOnly,      \* get_all(status) keeps to the jobs the last update() changed
    jobRc,            \* what finish_pbs_job computes for each job
    pbsPc,            \* position of run_pbs_mode ("off": the run is local)
    jobState,         \* job.status of each tracked job
    jobChanged,       \* the last update() changed the job's status
    finishCount,      \* number of times finish_pbs_job was applied to each job
    pbsRcs,           \* returncodes of run_pbs_mode; None: the job is no key
    pbsLog,           \* the update() and sleep() calls of run_pbs_mode, in order
    pbsExit           \* what run_pbs_mode called sys.exit with

vars == << n, poolStopOnError, chainStopOnError, total, lens, threads, mainPc,
           exitCode, poolPc, poolOver, poolIndex, running, poolStopped,
           poolRcs, startOrder, sysExit, chPc, chTmp, chOver, chIndex,
           chRunning, chStopped, chRcs, sweepPos, sweepSeen, termReq, tPc, tOver,
           tRc, proc, tLog, numJobs, changedOnly, jobRc, pbsPc, jobState,
           jobChanged, finishCount, pbsRcs, pbsLog, pbsExit >>

cfgVars == << n, poolStopOnError, chainStopOnError, total, lens, threads >>
mainVars == << mainPc, exitCode >>
poolVars == << poolPc, poolOver, poolIndex, running, poolStopped, poolRcs,
               startOrder, sysExit >>
sweepVars == << sweepPos, sweepSeen, termReq >>
chainVars == << chPc, chTmp, chOver, chIndex, chRunning, chStopped, chRcs,
                sweepVars >>
taskVars == << tPc, tOver, tRc, proc, tLog >>
pbsCfgVars == << numJobs, changedOnly, jobRc >>
pbsVars == << pbsCfgVars, pbsPc, jobState, jobChanged, finishCount, pbsRcs,
             pbsLog, pbsExit >>
localVars == << cfgVars, mainVars, poolVars, chainVars, taskVars >>

\* ---- pure helpers --------------------------------------------------------

\* PyMax taking the least returncode instead of the greatest
PyMin(vals) ==
    LET ints == UNION vals
    IN  IF ints = {} THEN None
        ELSE {CHOOSE m \in ints : \A x \in ints : m <= x}

\* max() of Python 2 over returncodes: None is below every integer
PyMax(vals) ==
    LET ints == UNION vals
    IN  IF ints = {} THEN None
        ELSE {CHOOSE m \in ints : \A x \in ints : x <= m}

\* Returncode counting a subtask that has no returncode yet as 0
ReturncodeNoneAsZero(rcs) ==
    IF DOMAIN rcs = {} THEN None
    ELSE PyMax({IF rcs[k] = None THEN {0} ELSE rcs[k] : k \in DOMAIN rcs})

\* MultiThreads.returncode
Returncode(rcs) ==
    IF DOMAIN rcs = {} THEN None ELSE PyMax({rcs[k] : k \in DOMAIN rcs})

\* MultiThreads.total
Total(ths) == Len(ths)

\* truth value of a returncode: None and 0 are false
Truthy(rc) == \E v \in rc : v # 0

\* `returncode > 0` of Python 2: None > 0 is false
Positive(rc) == \E v \in rc : v > 0

\* runner.threads: the chains of the pool in the order add() received them
PoolThreads == [k \in 1 .. total |-> k]

\* chain.threads: the subtasks of chain c in the order add() received them
ChainThreads(c) == [i \in 1 .. lens[c] |-> << c, i >>]

\* the subtasks in the order run_local_mode constructs them (chain by chain),
\* which is BinExecutor.threads once all are constructed
RECURSIVE Registry(_, _, _)
Registry(c, tot, ls) ==
    IF c > tot THEN << >>
    ELSE [i \in 1 .. ls[c] |-> << c, i >>] \o Registry(c + 1, tot, ls)

RECURSIVE SumLens(_, _)
SumLens(ls, c) == IF c = 0 THEN 0 ELSE ls[c] + SumLens(ls, c - 1)

\* MultiThreads.current_thread
CurrentThread(ths, index) == ths[index]

\* the listeners of a task's on_start and on_complete events, in registration
\* order: NumObservers listeners 1, 2, ... registered by the task's creator,
\* then listener 0, the owning chain's handler registered by add()
OnStartListeners == << 0 >>
OnCompleteListeners == [j \in 1 .. NumObservers |-> j] \o << 0 >>

\* Event.__call__ : the entries the listeners leave in the log, in call order
\* each listener is handed the thread and sees its returncode and is_over()
FireLog(kind, listeners, rc, over) ==
    [j \in 1 .. Len(listeners) |->
        [ev |-> kind, id |-> listeners[j], rc |-> rc, over |-> over]]

\* an entry of the log for a step of the thread itself
OwnLog(kind, rc, over) == [ev |-> kind, id |-> 0, rc |-> rc, over |-> over]

\* ---- initial state -------------------------------------------------------

\* the objects as their constructors leave them: ExtendedThread.__init__,
\* MultiThreads.__init__, BinExecutor.__init__, and an empty registry
InitThreads ==
    /\ threads = << >>
    /\ exitCode = None
    /\ poolPc = "new"
    /\ poolOver = TRUE
    /\ poolIndex = 0
    /\ running = 0
    /\ poolStopped = FALSE
    /\ poolRcs = [c \in 1 .. total |-> None]
    /\ startOrder = << >>
    /\ sysExit = FALSE
    /\ chPc = [c \in Chains |-> "new"]
    /\ chTmp = [c \in Chains |-> 0]
    /\ chOver = [c \in Chains |-> TRUE]
    /\ chIndex = [c \in Chains |-> 0]
    /\ chRunning = [c \in Chains |-> 0]
    /\ chStopped = [c \in Chains |-> FALSE]
    /\ chRcs = [c \in Chains |-> [i \in 1 .. lens[c] |-> None]]
    /\ sweepPos = [c \in Chains |-> 0]
    /\ sweepSeen = [c \in Chains |-> << >>]
    /\ termReq = {}
    /\ tPc = [t \in Tasks |-> "new"]
    /\ tOver = [t \in Tasks |-> TRUE]
    /\ tRc = [t \in Tasks |-> None]
    /\ proc = [t \in Tasks |-> "none"]
    /\ tLog = [t \in Tasks |-> << >>]

\* no remote run
PbsOff ==
    /\ numJobs = 0
    /\ changedOnly = FALSE
    /\ jobRc = << >>
    /\ pbsPc = "off"
    /\ jobState = << >>
    /\ jobChanged = << >>
    /\ finishCount = << >>
    /\ pbsRcs = << >>
    /\ pbsLog = << >>
    /\ pbsExit = None

\* run_local_mode is entered with its chains and subtasks still to be built
Init ==
    /\ n \in 1 .. MaxN
    /\ poolStopOnError \in BOOLEAN
    /\ chainStopOnError \in BOOLEAN
    /\ total \in 1 .. NumChains
    /\ lens \in [Chains -> 0 .. MaxThreads - 1]
    /\ \A c \in Chains : c > total => lens[c] = 0
    \* the pools explored: those of at most MaxThreads threads, chains and
    \* subtasks together, and the fail-fast pool of two one-subtask chains
    /\ \/ total + SumLens(lens, NumChains) <= MaxThreads
       \/ (total = 2 /\ lens[1] = 1 /\ lens[2] = 1 /\ poolStopOnError)
    \* create_process_from_case sets seq.stop_on_error = True; the default
    \* False of MultiThreads.__init__ is explored where it changes what runs,
    \* in the pools that hold a chain of two or more subtasks
    /\ (\A c \in Chains : lens[c] <= 1) => chainStopOnError
    /\ mainPc = "build"
    /\ InitThreads
    /\ PbsOff

\* ---- run_local_mode (main thread) ----------------------------------------

\* create_process_from_case building the next subtask:
\* BinExecutor.__init__ runs BinExecutor.threads.append(self)
Construct ==
    /\ mainPc = "build"
    /\ Len(threads) < SumLens(lens, NumChains)
    /\ threads' = Append(threads, Registry(1, total, lens)[Len(threads) + 1])
    /\ UNCHANGED << pbsVars, n, poolStopOnError, chainStopOnError, total,
                    lens, mainVars, poolVars, chainVars, taskVars >>

\* every chain is built and added; runner.start()
MainStart ==
    /\ mainPc = "build"
    /\ Len(threads) = SumLens(lens, NumChains)
    /\ mainPc' = "wait"
    /\ poolPc' = "begin"
    /\ UNCHANGED << pbsVars, cfgVars, exitCode, poolOver, poolIndex, running,
                    poolStopped, poolRcs, startOrder, sysExit, chainVars,
                    taskVars >>

\* while runner.is_running(): time.sleep(1)   -- the loop is left
MainWaitOver ==
    /\ mainPc = "wait"
    /\ poolOver
    /\ mainPc' = "summary"
    /\ UNCHANGED << pbsVars, cfgVars, exitCode, poolVars, chainVars, taskVars >>

\* the summary, then: return runner.returncode
MainReturn ==
    /\ mainPc = "summary"
    /\ mainPc' = "done"
    /\ exitCode' = Returncode(poolRcs)
    /\ UNCHANGED << pbsVars, cfgVars, poolVars, chainVars, taskVars >>

\* ---- ParallelThreads (controller thread) ---------------------------------

\* ExtendedThread.run: self._is_over = False; self.on_start(self)
PoolBegin ==
    /\ poolPc = "begin"
    /\ poolOver' = FALSE
    /\ poolPc' = "ensure"
    /\ UNCHANGED << pbsVars, cfgVars, mainVars, poolIndex, running, poolStopped,
                    poolRcs, startOrder, sysExit, chainVars, taskVars >>

\* ensure_run_count: if self.stopped / if self.index >= self.total
EnsureRunCount ==
    /\ poolPc = "ensure"
    /\ poolPc' = IF poolStopped \/ poolIndex >= Total(PoolThreads)
                 THEN "end" ELSE "capacity"
    /\ UNCHANGED << pbsVars, cfgVars, mainVars, poolOver, poolIndex, running,
                    poolStopped, poolRcs, startOrder, sysExit, chainVars,
                    taskVars >>

\* ensure_run_count: if self.running < self.n: self.run_next(); return True
\* followed by time.sleep(1) of _run
EnsureCapacity ==
    /\ poolPc = "capacity"
    /\ poolPc' = IF running < n THEN "run_next" ELSE "ensure"
    /\ UNCHANGED << pbsVars, cfgVars, mainVars, poolOver, poolIndex, running,
                    poolStopped, poolRcs, startOrder, sysExit, chainVars,
                    taskVars >>

\* run_next of the pool: if self.stopped: return False
RunNextCheck ==
    /\ poolPc = "run_next"
    /\ poolPc' = IF poolStopped THEN "ensure" ELSE "admit"
    /\ UNCHANGED << pbsVars, cfgVars, mainVars, poolOver, poolIndex, running,
                    poolStopped, poolRcs, startOrder, sysExit, chainVars,
                    taskVars >>

\* RunNextStart admitting from the far end of self.threads
RunNextStartReversed ==
    /\ poolPc = "admit"
    /\ poolPc' = "ensure"
    /\ IF poolIndex >= Total(PoolThreads)
       THEN UNCHANGED << poolIndex, startOrder, chPc >>
       ELSE LET c == CurrentThread(PoolThreads, Total(PoolThreads) - poolIndex)
            IN  /\ poolIndex' = poolIndex + 1
                /\ startOrder' = Append(startOrder, c)
                /\ chPc' = [chPc EXCEPT ![c] = "begin"]
    /\ UNCHANGED << pbsVars, cfgVars, mainVars, poolOver, running, poolStopped,
                    poolRcs, sysExit, chTmp, chOver, chIndex, chRunning,
                    chStopped, chRcs, sweepVars, taskVars >>

\* run_next of the pool: the index test, self.index += 1 and
\* self.threads[self.index - 1].start()
RunNextStart ==
    /\ poolPc = "admit"
    /\ poolPc' = "ensure"
    /\ IF poolIndex >= Total(PoolThreads)
       THEN UNCHANGED << poolIndex, startOrder, chPc >>
       ELSE LET c == CurrentThread(PoolThreads, poolIndex + 1)
            IN  /\ poolIndex' = poolIndex + 1
                /\ startOrder' = Append(startOrder, c)
                /\ chPc' = [chPc EXCEPT ![c] = "begin"]
    /\ UNCHANGED << pbsVars, cfgVars, mainVars, poolOver, running, poolStopped,
                    poolRcs, sysExit, chTmp, chOver, chIndex, chRunning,
                    chStopped, chRcs, sweepVars, taskVars >>

\* ExtendedThread.run: self._is_over = True; self.on_complete(self)
PoolEnd ==
    /\ poolPc = "end"
    /\ poolOver' = TRUE
    /\ poolPc' = "done"
    /\ UNCHANGED << pbsVars, cfgVars, mainVars, poolIndex, running, poolStopped,
                    poolRcs, startOrder, sysExit, chainVars, taskVars >>

\* ---- SequentialThreads (one thread per chain) ----------------------------

\* ExtendedThread.run of the chain: self._is_over = False; self.on_start(self),
\* which calls pool.on_thread_start: self.running += 1, the load of running
ChainBegin(c) ==
    /\ chPc[c] = "begin"
    /\ chOver' = [chOver EXCEPT ![c] = FALSE]
    /\ chTmp' = [chTmp EXCEPT ![c] = running]
    /\ chPc' = [chPc EXCEPT ![c] = "inc_store"]
    /\ UNCHANGED << pbsVars, cfgVars, mainVars, poolVars, chIndex, chRunning,
                    chStopped, chRcs, sweepVars, taskVars >>

\* MultiThreads.run_next of chain c, as SequentialThreads._run calls it:
\* a False result breaks the loop, otherwise the next subtask is started
RunNext(c) ==
    IF chStopped[c] \/ chIndex[c] >= Total(ChainThreads(c))
    THEN /\ chPc' = [chPc EXCEPT ![c] = "finish"]
         /\ UNCHANGED << chIndex, tPc >>
    ELSE /\ chIndex' = [chIndex EXCEPT ![c] = @ + 1]
         /\ tPc' = [tPc EXCEPT
                      ![CurrentThread(ChainThreads(c), chIndex[c] + 1)] = "begin"]
         /\ chPc' = [chPc EXCEPT ![c] = "join"]

\* pool.on_thread_start: self.running += 1, the store; the notification
\* returns and SequentialThreads._run begins: if not self.run_next(): break
OnThreadStartStore(c) ==
    /\ chPc[c] = "inc_store"
    /\ running' = chTmp[c] + 1
    /\ chTmp' = [chTmp EXCEPT ![c] = 0]
    /\ RunNext(c)
    /\ UNCHANGED << pbsVars, cfgVars, mainVars, poolPc, poolOver, poolIndex,
                    poolStopped, poolRcs, startOrder, sysExit, chOver,
                    chRunning, chStopped, chRcs, sweepVars, tOver, tRc, proc,
                    tLog >>

\* ChainJoin without the join(): the chain goes on while the subtask runs
ChainJoinNoWait(c) ==
    /\ chPc[c] = "join"
    /\ LET t == CurrentThread(ChainThreads(c), chIndex[c])
       IN  /\ IF chainStopOnError /\ Positive(tRc[t])
              THEN /\ chStopped' = [chStopped EXCEPT ![c] = TRUE]
                   /\ chPc' = [chPc EXCEPT ![c] = "finish"]
                   /\ UNCHANGED << chIndex, tPc >>
              ELSE /\ RunNext(c)
                   /\ UNCHANGED chStopped
    /\ UNCHANGED << pbsVars, cfgVars, mainVars, poolVars, chTmp, chOver, chRunning,
                    chRcs, sweepVars, tOver, tRc, proc, tLog >>

\* SequentialThreads._run: self.current_thread.join() returns, then
\* if self.stop_on_error and self.current_thread.returncode > 0:
\*     self.stopped = True; break
\* and otherwise the next iteration: if not self.run_next(): break
ChainJoin(c) ==
    /\ chPc[c] = "join"
    /\ LET t == CurrentThread(ChainThreads(c), chIndex[c])
       IN  /\ tPc[t] = "done"
           /\ IF chainStopOnError /\ Positive(tRc[t])
              THEN /\ chStopped' = [chStopped EXCEPT ![c] = TRUE]
                   /\ chPc' = [chPc EXCEPT ![c] = "finish"]
                   /\ UNCHANGED << chIndex, tPc >>
              ELSE /\ RunNext(c)
                   /\ UNCHANGED chStopped
    /\ UNCHANGED << pbsVars, cfgVars, mainVars, poolVars, chTmp, chOver, chRunning,
                    chRcs, sweepVars, tOver, tRc, proc, tLog >>

\* ExtendedThread.run of the chain: self._is_over = True; self.on_complete(self),
\* which calls MultiThreads.on_thread_complete of the pool:
\* self.returncodes[thread] = thread.returncode
ChainEnd(c) ==
    /\ chPc[c] = "finish"
    /\ chOver' = [chOver EXCEPT ![c] = TRUE]
    /\ poolRcs' = [poolRcs EXCEPT ![c] = Returncode(chRcs[c])]
    /\ chPc' = [chPc EXCEPT ![c] = "dec_load"]
    /\ UNCHANGED << pbsVars, cfgVars, mainVars, poolPc, poolOver, poolIndex, running,
                    poolStopped, startOrder, sysExit, chTmp, chIndex,
                    chRunning, chStopped, chRcs, sweepVars, taskVars >>

\* MultiThreads.on_thread_complete of the pool: self.running -= 1, the load
OnThreadCompleteLoad(c) ==
    /\ chPc[c] = "dec_load"
    /\ chTmp' = [chTmp EXCEPT ![c] = running]
    /\ chPc' = [chPc EXCEPT ![c] = "dec_store"]
    /\ UNCHANGED << pbsVars, cfgVars, mainVars, poolVars, chOver, chIndex, chRunning,
                    chStopped, chRcs, sweepVars, taskVars >>

\* MultiThreads.on_thread_complete of the pool: self.running -= 1, the store;
\* then ParallelThreads.on_thread_complete evaluates
\* if self.stop_on_error > 0 and thread.returncode
OnThreadCompleteStore(c) ==
    /\ chPc[c] = "dec_store"
    /\ running' = chTmp[c] - 1
    /\ chTmp' = [chTmp EXCEPT ![c] = 0]
    /\ chPc' = [chPc EXCEPT ![c] =
                  IF poolStopOnError /\ Truthy(Returncode(chRcs[c]))
                  THEN "failfast" ELSE "done"]
    /\ UNCHANGED << pbsVars, cfgVars, mainVars, poolPc, poolOver, poolIndex,
                    poolStopped, poolRcs, startOrder, sysExit, chOver,
                    chIndex, chRunning, chStopped, chRcs, sweepVars, taskVars >>

\* ParallelThreads.on_thread_complete: self.stopped = True, and the call of
\* BinExecutor.signal_handler(None, None)
FailFast(c) ==
    /\ chPc[c] = "failfast"
    /\ poolStopped' = TRUE
    /\ sweepPos' = [sweepPos EXCEPT ![c] = 1]
    /\ chPc' = [chPc EXCEPT ![c] = "sweep"]
    /\ UNCHANGED << pbsVars, cfgVars, mainVars, poolPc, poolOver, poolIndex, running,
                    poolRcs, startOrder, sysExit, chTmp, chOver, chIndex,
                    chRunning, chStopped, chRcs, sweepSeen, termReq, taskVars >>

\* SweepCheck leaving the loop when executor.process is None: the
\* AttributeError is not caught inside the loop
SweepCheckAborts(c) ==
    /\ chPc[c] = "sweep"
    /\ sweepPos[c] <= Len(threads)
    /\ LET t == threads[sweepPos[c]]
       IN  /\ sweepSeen' = [sweepSeen EXCEPT ![c] = Append(@, proc[t])]
           /\ IF proc[t] = "alive"
              THEN /\ chPc' = [chPc EXCEPT ![c] = "kill"]
                   /\ UNCHANGED sweepPos
              ELSE /\ sweepPos' = [sweepPos EXCEPT ![c] =
                                     IF proc[t] = "none" THEN Len(threads) + 1
                                     ELSE @ + 1]
                   /\ UNCHANGED chPc
    /\ UNCHANGED << pbsVars, cfgVars, mainVars, poolVars, chTmp, chOver, chIndex,
                    chRunning, chStopped, chRcs, termReq, taskVars >>

\* BinExecutor.signal_handler, the liveness check of one executor of the loop:
\* if executor.process.is_running().  process None raises AttributeError,
\* which except Exception swallows; a broken or ended process is not running
SweepCheck(c) ==
    /\ chPc[c] = "sweep"
    /\ sweepPos[c] <= Len(threads)
    /\ LET t == threads[sweepPos[c]]
       IN  /\ sweepSeen' = [sweepSeen EXCEPT ![c] = Append(@, proc[t])]
           /\ IF proc[t] = "alive"
              THEN /\ chPc' = [chPc EXCEPT ![c] = "kill"]
                   /\ UNCHANGED sweepPos
              ELSE /\ sweepPos' = [sweepPos EXCEPT ![c] = @ + 1]
                   /\ UNCHANGED chPc
    /\ UNCHANGED << pbsVars, cfgVars, mainVars, poolVars, chTmp, chOver, chIndex,
                    chRunning, chStopped, chRcs, termReq, taskVars >>

\* SweepKill taking the executor it kills out of BinExecutor.threads
SweepKillRemoves(c) ==
    /\ chPc[c] = "kill"
    /\ LET t == threads[sweepPos[c]]
       IN  /\ termReq' = termReq \cup {t}
           /\ proc' = IF proc[t] = "alive" THEN [proc EXCEPT ![t] = "killed"]
                      ELSE proc
           /\ threads' = SelectSeq(threads, LAMBDA e : e # t)
    /\ sweepPos' = [sweepPos EXCEPT ![c] = @ + 1]
    /\ chPc' = [chPc EXCEPT ![c] = "sweep"]
    /\ UNCHANGED << pbsVars, n, poolStopOnError, chainStopOnError, total,
                    lens, mainVars, poolVars, chTmp, chOver, chIndex,
                    chRunning, chStopped, chRcs, sweepSeen, tPc, tOver, tRc,
                    tLog >>

\* BinExecutor.signal_handler: ProcessUtils.secure_kill(executor.process) for
\* the executor found running.  A process that ended since the check is left
\* as it ended, whatever secure_kill raises being swallowed
SweepKill(c) ==
    /\ chPc[c] = "kill"
    /\ LET t == threads[sweepPos[c]]
       IN  /\ termReq' = termReq \cup {t}
           /\ proc' = IF proc[t] = "alive" THEN [proc EXCEPT ![t] = "killed"]
                      ELSE proc
    /\ sweepPos' = [sweepPos EXCEPT ![c] = @ + 1]
    /\ chPc' = [chPc EXCEPT ![c] = "sweep"]
    /\ UNCHANGED << pbsVars, cfgVars, mainVars, poolVars, chTmp, chOver, chIndex,
                    chRunning, chStopped, chRcs, sweepSeen, tPc, tOver, tRc,
                    tLog >>

\* BinExecutor.signal_handler: sys.exit(1) raises SystemExit in the calling
\* thread, which ends that thread
SweepExit(c) ==
    /\ chPc[c] = "sweep"
    /\ sweepPos[c] > Len(threads)
    /\ sysExit' = TRUE
    /\ sweepPos' = [sweepPos EXCEPT ![c] = 0]
    /\ chPc' = [chPc EXCEPT ![c] = "done"]
    /\ UNCHANGED << pbsVars, cfgVars, mainVars, poolPc, poolOver, poolIndex, running,
                    poolStopped, poolRcs, startOrder, chTmp, chOver, chIndex,
                    chRunning, chStopped, chRcs, sweepSeen, termReq, taskVars >>

\* ---- BinExecutor (one thread per subtask) --------------------------------

\* ExtendedThread.run: self._is_over = False; self.on_start(self), which calls
\* chain.on_thread_start: self.running += 1; then BinExecutor._run:
\* self.process = psutil.Popen(...) succeeds
TaskBegin(t) ==
    /\ tPc[t] = "begin"
    /\ tOver' = [tOver EXCEPT ![t] = FALSE]
    /\ chRunning' = [chRunning EXCEPT ![t[1]] = @ + 1]
    /\ tLog' = [tLog EXCEPT ![t] = @ \o FireLog("start", OnStartListeners, tRc[t], FALSE)]
    /\ proc' = [proc EXCEPT ![t] = "alive"]
    /\ tPc' = [tPc EXCEPT ![t] = "wait"]
    /\ UNCHANGED << pbsVars, cfgVars, mainVars, poolVars, chPc, chTmp, chOver, chIndex,
                    chStopped, chRcs, sweepVars, tRc >>

\* TaskBeginBroken without the except clause of _run: the exception of Popen
\* escapes and ends the thread before the returncode, _is_over and on_complete
TaskBeginBrokenEscapes(t) ==
    /\ tPc[t] = "begin"
    /\ tOver' = [tOver EXCEPT ![t] = FALSE]
    /\ chRunning' = [chRunning EXCEPT ![t[1]] = @ + 1]
    /\ proc' = [proc EXCEPT ![t] = "broken"]
    /\ tLog' = [tLog EXCEPT ![t] = (@ \o FireLog("start", OnStartListeners, tRc[t], FALSE))
                   \o << OwnLog("work", tRc[t], FALSE) >>]
    /\ tPc' = [tPc EXCEPT ![t] = "done"]
    /\ UNCHANGED << pbsVars, cfgVars, mainVars, poolVars, chPc, chTmp, chOver, chIndex,
                    chStopped, chRcs, sweepVars, tRc >>

\* the same, but Popen raises: self.process = BrokenProcess(e);
\* self.returncode = self.process.returncode, which is 666
TaskBeginBroken(t) ==
    /\ tPc[t] = "begin"
    /\ tOver' = [tOver EXCEPT ![t] = FALSE]
    /\ chRunning' = [chRunning EXCEPT ![t[1]] = @ + 1]
    /\ proc' = [proc EXCEPT ![t] = "broken"]
    /\ tRc' = [tRc EXCEPT ![t] = {BrokenReturncode}]
    /\ tLog' = [tLog EXCEPT ![t] = (@ \o FireLog("start", OnStartListeners, tRc[t], FALSE))
                   \o << OwnLog("work", tRc[t], FALSE),
                         OwnLog("returncode", {BrokenReturncode}, FALSE) >>]
    /\ tPc' = [tPc EXCEPT ![t] = "over"]
    /\ UNCHANGED << pbsVars, cfgVars, mainVars, poolVars, chPc, chTmp, chOver, chIndex,
                    chStopped, chRcs, sweepVars >>

\* TaskWait with a wait() that does not return for a killed process
TaskWaitHangs(t) ==
    /\ tPc[t] = "wait"
    /\ proc[t] # "killed"
    /\ \E code \in ExitCodes :
          /\ tRc' = [tRc EXCEPT ![t] = {code}]
          /\ tLog' = [tLog EXCEPT ![t] = @ \o << OwnLog("work", tRc[t], tOver[t]),
                                                OwnLog("returncode", {code}, tOver[t]) >>]
    /\ proc' = [proc EXCEPT ![t] = "exited"]
    /\ tPc' = [tPc EXCEPT ![t] = "over"]
    /\ UNCHANGED << pbsVars, cfgVars, mainVars, poolVars, chainVars, tOver >>

\* BinExecutor._run: self.process.wait() returns, the process having ended on
\* its own or killed by the sweep; self.returncode = self.process.returncode
TaskWait(t) ==
    /\ tPc[t] = "wait"
    /\ \E code \in IF proc[t] = "killed" THEN KilledCodes ELSE ExitCodes :
          /\ tRc' = [tRc EXCEPT ![t] = {code}]
          /\ tLog' = [tLog EXCEPT ![t] = @ \o << OwnLog("work", tRc[t], tOver[t]),
                                                OwnLog("returncode", {code}, tOver[t]) >>]
    /\ proc' = [proc EXCEPT ![t] = IF @ = "killed" THEN "killed" ELSE "exited"]
    /\ tPc' = [tPc EXCEPT ![t] = "over"]
    /\ UNCHANGED << pbsVars, cfgVars, mainVars, poolVars, chainVars, tOver >>

\* TaskOver calling on_complete before it sets _is_over
TaskOverLate(t) ==
    /\ tPc[t] = "over"
    /\ tOver' = [tOver EXCEPT ![t] = TRUE]
    /\ tLog' = [tLog EXCEPT ![t] =
                   (@ \o FireLog("complete", OnCompleteListeners, tRc[t], tOver[t]))
                   \o << OwnLog("over", tRc[t], TRUE) >>]
    /\ chRcs' = [chRcs EXCEPT ![t[1]][t[2]] = tRc[t]]
    /\ chRunning' = [chRunning EXCEPT ![t[1]] = @ - 1]
    /\ tPc' = [tPc EXCEPT ![t] = "done"]
    /\ UNCHANGED << pbsVars, cfgVars, mainVars, poolVars, chPc, chTmp, chOver, chIndex,
                    chStopped, sweepVars, tRc, proc >>

\* ExtendedThread.run: self._is_over = True; self.on_complete(self), which
\* calls the listeners in registration order; the chain's listener is
\* MultiThreads.on_thread_complete:
\* self.returncodes[thread] = thread.returncode; self.running -= 1
TaskOver(t) ==
    /\ tPc[t] = "over"
    /\ tOver' = [tOver EXCEPT ![t] = TRUE]
    /\ tLog' = [tLog EXCEPT ![t] = (@ \o << OwnLog("over", tRc[t], TRUE) >>)
                   \o FireLog("complete", OnCompleteListeners, tRc[t], TRUE)]
    /\ chRcs' = [chRcs EXCEPT ![t[1]][t[2]] = tRc[t]]
    /\ chRunning' = [chRunning EXCEPT ![t[1]] = @ - 1]
    /\ tPc' = [tPc EXCEPT ![t] = "done"]
    /\ UNCHANGED << pbsVars, cfgVars, mainVars, poolVars, chPc, chTmp, chOver, chIndex,
                    chStopped, sweepVars, tRc, proc >>

\* ---- run_pbs_mode (remote mode, single thread) --------------------------

\* the states of a job; a job is tracked from its submission
JobStates == {"QUEUED", "RUNNING", "COMPLETED", "FAILED", "UNKNOWN"}
TerminalStates == {"COMPLETED", "FAILED", "UNKNOWN"}

\* multijob.is_running(): some tracked job is not in a terminal state
IsRunning == \E j \in 1 .. numJobs : jobState[j] \notin TerminalStates

\* multijob.get_all(status=JobState.COMPLETED)
GetAll(status) ==
    {j \in 1 .. numJobs : jobState[j] = status /\ (changedOnly => jobChanged[j])}

\* number of update() calls made so far
Updates == Cardinality({k \in 1 .. Len(pbsLog) : pbsLog[k] = "update"})

\* multijob.update(): one bulk query; every job not yet terminal takes the
\* state the answer gives it (UNKNOWN when the answer lacks it)
Update ==
    /\ \E new \in [1 .. numJobs -> JobStates] :
          /\ \A j \in 1 .. numJobs :
                jobState[j] \in TerminalStates => new[j] = jobState[j]
          /\ jobState' = new
          /\ jobChanged' = [j \in 1 .. numJobs |-> new[j] # jobState[j]]
    /\ pbsLog' = Append(pbsLog, "update")

\* run_pbs_mode: multijob.update() before the loop
PbsFirstUpdate ==
    /\ pbsPc = "first_update"
    /\ Update
    /\ pbsPc' = "test"
    /\ UNCHANGED << localVars, pbsCfgVars, finishCount, pbsRcs, pbsExit >>

\* run_pbs_mode: while multijob.is_running()
PbsLoopTest ==
    /\ pbsPc = "test"
    /\ pbsPc' = IF IsRunning THEN "update" ELSE "exit"
    /\ UNCHANGED << localVars, pbsCfgVars, jobState, jobChanged, finishCount,
                    pbsRcs, pbsLog, pbsExit >>

\* run_pbs_mode: multijob.update() of the loop body
PbsUpdate ==
    /\ pbsPc = "update"
    /\ Updates <= MaxRounds
    /\ Update
    /\ pbsPc' = "collect"
    /\ UNCHANGED << localVars, pbsCfgVars, finishCount, pbsRcs, pbsExit >>

\* run_pbs_mode: jobs_changed = multijob.get_all(status=JobState.COMPLETED);
\* for job in jobs_changed: returncodes[job] = finish_pbs_job(job, batch)
PbsCollect ==
    /\ pbsPc = "collect"
    /\ finishCount' = [j \in 1 .. numJobs |->
                         IF j \in GetAll("COMPLETED") THEN finishCount[j] + 1
                         ELSE finishCount[j]]
    /\ pbsRcs' = [j \in 1 .. numJobs |->
                    IF j \in GetAll("COMPLETED") THEN jobRc[j] ELSE pbsRcs[j]]
    /\ pbsPc' = "sleep"
    /\ UNCHANGED << localVars, pbsCfgVars, jobState, jobChanged, pbsLog,
                    pbsExit >>

\* PbsSleep without the test of is_running(): time.sleep(5) ends every round
PbsSleepAlways ==
    /\ pbsPc = "sleep"
    /\ pbsLog' = Append(pbsLog, "sleep")
    /\ pbsPc' = "test"
    /\ UNCHANGED << localVars, pbsCfgVars, jobState, jobChanged, finishCount,
                    pbsRcs, pbsExit >>

\* run_pbs_mode: if multijob.is_running(): time.sleep(5)
PbsSleep ==
    /\ pbsPc = "sleep"
    /\ pbsLog' = IF IsRunning THEN Append(pbsLog, "sleep") ELSE pbsLog
    /\ pbsPc' = "test"
    /\ UNCHANGED << localVars, pbsCfgVars, jobState, jobChanged, finishCount,
                    pbsRcs, pbsExit >>

\* run_pbs_mode: returncode = max(returncodes.values()) if returncodes else 2;
\* sys.exit(returncode)
PbsExit ==
    /\ pbsPc = "exit"
    /\ pbsExit' = IF \E j \in 1 .. numJobs : pbsRcs[j] # None
                  THEN PyMax({pbsRcs[j] : j \in 1 .. numJobs})
                  ELSE {NoReturncode}
    /\ pbsPc' = "done"
    /\ UNCHANGED << localVars, pbsCfgVars, jobState, jobChanged, finishCount,
                    pbsRcs, pbsLog >>

\* ---- the specification ---------------------------------------------------
Next ==
    \/ Construct
    \/ MainStart
    \/ MainWaitOver
    \/ MainReturn
    \/ PoolBegin
    \/ EnsureRunCount
    \/ EnsureCapacity
    \/ RunNextCheck
    \/ RunNextStart
    \/ PoolEnd
    \/ \E c \in Chains : ChainBegin(c)
    \/ \E c \in Chains : OnThreadStartStore(c)
    \/ \E c \in Chains : ChainJoin(c)
    \/ \E c \in Chains : ChainEnd(c)
    \/ \E c \in Chains : OnThreadCompleteLoad(c)
    \/ \E c \in Chains : OnThreadCompleteStore(c)
    \/ \E c \in Chains : FailFast(c)
    \/ \E c \in Chains : SweepCheck(c)
    \/ \E c \in Chains : SweepKill(c)
    \/ \E c \in Chains : SweepExit(c)
    \/ \E t \in Tasks : TaskBegin(t)
    \/ \E t \in Tasks : TaskBeginBroken(t)
    \/ \E t \in Tasks : TaskWait(t)
    \/ \E t \in Tasks : TaskOver(t)

Spec == Init /\ [][Next]_vars

\* run_local_mode entered with a fail-fast pool of two one-subtask chains and
\* room for both to run side by side
InitFailFast ==
    /\ total = 2
    /\ n = total
    /\ poolStopOnError = TRUE
    /\ chainStopOnError = TRUE
    /\ lens = [c \in Chains |-> IF c <= 2 THEN 1 ELSE 0]
    /\ mainPc = "build"
    /\ InitThreads
    /\ PbsOff

\* a step of a chain thread or of a subtask thread
ThreadStep ==
    \/ \E c \in Chains :
          \/ ChainBegin(c) \/ OnThreadStartStore(c) \/ ChainJoin(c)
          \/ ChainEnd(c) \/ OnThreadCompleteLoad(c) \/ OnThreadCompleteStore(c)
          \/ FailFast(c) \/ SweepCheck(c) \/ SweepKill(c) \/ SweepExit(c)
    \/ \E t \in Tasks :
          \/ TaskBegin(t) \/ TaskBeginBroken(t) \/ TaskWait(t) \/ TaskOver(t)

\* the threads are scheduled fairly: a chain or subtask thread that can take
\* a step is not held back for ever.  These threads run no loop, so each
\* takes finitely many steps and weak fairness of their steps taken together
\* lets every one of them run to its end
SpecFair == InitFailFast /\ [][Next]_vars /\ WF_vars(ThreadStep)

\* run_local_mode entered with a fail-fast pool of a two-subtask chain and a
\* one-subtask chain, and room for both to run side by side
InitTwoSubtasks ==
    /\ total = 2
    /\ n = total
    /\ poolStopOnError = TRUE
    /\ chainStopOnError = TRUE
    /\ lens = [c \in Chains |-> IF c = 1 THEN 2 ELSE IF c = 2 THEN 1 ELSE 0]
    /\ mainPc = "build"
    /\ InitThreads
    /\ PbsOff

SpecTwoSubtasks == InitTwoSubtasks /\ [][Next]_vars

\* run_pbs_mode is entered with its jobs submitted and added to multijob;
\* no thread object of the local mode is in use
InitPbs ==
    /\ n = 1
    /\ poolStopOnError = TRUE
    /\ chainStopOnError = TRUE
    /\ total = 1
    /\ lens = [c \in Chains |-> 0]
    /\ mainPc = "off"
    /\ InitThreads
    /\ numJobs \in 0 .. NumJobs
    /\ changedOnly \in BOOLEAN
    /\ jobRc \in [1 .. numJobs -> {{c} : c \in FinishCodes}]
    /\ pbsPc = "first_update"
    /\ jobState = [j \in 1 .. numJobs |-> "QUEUED"]
    /\ jobChanged = [j \in 1 .. numJobs |-> FALSE]
    /\ finishCount = [j \in 1 .. numJobs |-> 0]
    /\ pbsRcs = [j \in 1 .. numJobs |-> None]
    /\ pbsLog = << >>
    /\ pbsExit = None

NextPbs ==
    \/ PbsFirstUpdate
    \/ PbsLoopTest
    \/ PbsUpdate
    \/ PbsCollect
    \/ PbsSleep
    \/ PbsExit

SpecPbs == InitPbs /\ [][NextPbs]_vars

\* ---- properties ----------------------------------------------------------

\* start() has been called on chain c
Started(c) == chPc[c] # "new"

\* chain c has reached self._is_over = True and its completion notification
Completed(c) ==
    chPc[c] \in {"dec_load", "dec_store", "failfast", "sweep", "kill", "done"}

\* the chains the pool has started and that have not completed
InFlight == {c \in Chains : Started(c) /\ ~Completed(c)}

\* the subtasks chain c holds
TasksOf(c) == {<< c, i >> : i \in 1 .. lens[c]}

\* the greatest integer of a non-empty set
IntMax(S) == CHOOSE m \in S : \A x \in S : x <= m

\* C1: the chains started and not yet completed never number more than the
\* limit n, and the pool's running counter never exceeds n
C1_NeverMoreThanN ==
    /\ running <= n
    /\ Cardinality(InFlight) <= n

\* C2: with the pool stopped (on_thread_complete has set `stopped`), no step
\* of the controller starts another chain
C2_NoAdmissionOnceStopped ==
    [][poolStopped => startOrder' = startOrder]_vars

\* C3: when the pool has failed fast (a chain's nonzero returncode has set
\* stopped) and the controller and every started chain have ended, the run
\* ends with the fixed exit status 1
C3_FailFastExitsWithOne ==
    [][(/\ mainPc = "summary" /\ mainPc' = "done"
        /\ poolStopped
        /\ poolPc = "done"
        /\ \A c \in Chains : chPc[c] \in {"new", "done"})
          => exitCode' = {1}]_vars

\* C4: whenever no start or completion notification is in progress, `running`
\* is the number of start notifications fired minus the number of completion
\* notifications fired
C4_RunningHasNoLostUpdate ==
    (\A c \in Chains : chPc[c] \notin {"inc_store", "dec_load", "dec_store",
                                        "failfast", "sweep", "kill"})
    => running = Cardinality({c \in Chains : chPc[c] \notin {"new", "begin", "inc_store"}})
                 - Cardinality({c \in Chains : chPc[c] = "done"})

\* C5: the controller loop, when not stopped, has finished only if every chain
\* was admitted and none of the admitted chains is still running
C5_PoolOverOnlyWhenIdle ==
    (poolPc \in {"end", "done"} /\ ~poolStopped)
    => (poolIndex = total /\ InFlight = {})

\* C6: when the whole run has finished and every subtask of every chain
\* returned 0, all chains were admitted and run_local_mode returned 0
C6_AllSucceedReturnsZero ==
    (/\ mainPc = "done"
     /\ poolPc = "done"
     /\ \A c \in 1 .. total :
           /\ lens[c] >= 1
           /\ chPc[c] = "done"
           /\ \A t \in TasksOf(c) : tRc[t] = {0})
    => (exitCode = {0} /\ Len(startOrder) = total)

\* C7: chains are admitted in insertion order and each at most once; index is
\* the number of chains started and stays within 0 .. total
C7_AdmissionInInsertionOrder ==
    /\ poolIndex = Len(startOrder)
    /\ 0 <= poolIndex /\ poolIndex <= total
    /\ \A k \in 1 .. Len(startOrder) : startOrder[k] = k
    /\ \A j, k \in 1 .. Len(startOrder) : j # k => startOrder[j] # startOrder[k]
    /\ \A c \in Chains : Started(c) <=> \E k \in 1 .. Len(startOrder) : startOrder[k] = c

C7_Witness ==
    /\ total = 2
    /\ Len(startOrder) = 2
    /\ chPc[1] = "done"

\* C8: in a chain with stop-on-error, once the chain has joined a subtask whose
\* returncode is nonzero, the chain is stopped, no later subtask is started,
\* and the completed chain's returncode is that subtask's returncode
C8_ChainStopsOnNonzero ==
    chainStopOnError =>
        \A c \in Chains : \A i \in 1 .. lens[c] :
            (/\ Truthy(tRc[<< c, i >>])
             /\ (chIndex[c] > i \/ (chIndex[c] = i /\ chPc[c] # "join")))
            => /\ chStopped[c]
               /\ \A j \in (i + 1) .. lens[c] : tPc[<< c, j >>] = "new"
               /\ Completed(c) => Returncode(chRcs[c]) = tRc[<< c, i >>]

\* C9: in a chain without stop-on-error the subtasks run in insertion order,
\* all of them whatever the returncodes, and the completed chain's returncode
\* is the maximum of all its subtasks' returncodes
C9_ChainRunsAllAndTakesMax ==
    ~chainStopOnError =>
        \A c \in Chains :
            /\ \A i, j \in 1 .. lens[c] :
                  (i < j /\ tPc[<< c, j >>] # "new") => tPc[<< c, i >>] = "done"
            /\ (Completed(c) /\ lens[c] >= 1) =>
                  /\ \A t \in TasksOf(c) : tPc[t] = "done" /\ tRc[t] # None
                  /\ Returncode(chRcs[c]) = {IntMax(UNION {tRc[t] : t \in TasksOf(c)})}

C9_Witness ==
    /\ ~chainStopOnError
    /\ lens[1] = 2
    /\ Completed(1)
    /\ tRc[<< 1, 1 >>] = {2}
    /\ tRc[<< 1, 2 >>] = {0}

\* the events of a complete task run, in order
ExpectedEvents ==
    << << "start", 0 >>, << "work", 0 >>, << "returncode", 0 >>, << "over", 0 >> >>
    \o [j \in 1 .. NumObservers |-> << "complete", j >>]
    \o << << "complete", 0 >> >>

\* C10: a task's events happen in the order start-listeners, work, returncode
\* set (once), over, then each complete-listener once in registration order;
\* every complete-listener sees the returncode set and the task over
C10_TaskEventOrder ==
    \A t \in Tasks :
        /\ Len(tLog[t]) <= Len(ExpectedEvents)
        /\ \A j \in 1 .. Len(tLog[t]) :
              /\ << tLog[t][j].ev, tLog[t][j].id >> = ExpectedEvents[j]
              /\ tLog[t][j].ev = "complete" =>
                    (tLog[t][j].rc # None /\ tLog[t][j].rc = tRc[t] /\ tLog[t][j].over)
              /\ tLog[t][j].ev \in {"start", "work"} => tLog[t][j].rc = None
        /\ tPc[t] = "done" =>
              (Len(tLog[t]) = Len(ExpectedEvents) /\ chRcs[t[1]][t[2]] = tRc[t])
        /\ tPc[t] \in {"new", "begin", "wait"} => tRc[t] = None

C10_Witness ==
    /\ tPc[<< 1, 1 >>] = "done"
    /\ Len(tLog[<< 1, 1 >>]) = NumObservers + 5
    /\ tRc[<< 1, 1 >>] = {2}

\* C11: a task whose spawn failed holds the BrokenProcess and the returncode
\* 666 as soon as _run has returned, is never asked to terminate by a sweep,
\* and completes as any task does: it becomes over, every complete-listener
\* is called once in registration order and sees 666, and the chain records 666
C11_SpawnFailureRecorded ==
    \A t \in Tasks :
        proc[t] = "broken" =>
            /\ tRc[t] = {BrokenReturncode}
            /\ tPc[t] \in {"over", "done"}
            /\ t \notin termReq
            /\ tPc[t] = "done" =>
                  /\ tOver[t]
                  /\ chRcs[t[1]][t[2]] = {BrokenReturncode}
                  /\ Len(tLog[t]) = Len(ExpectedEvents)
                  /\ \A j \in 1 .. Len(tLog[t]) :
                        /\ << tLog[t][j].ev, tLog[t][j].id >> = ExpectedEvents[j]
                        /\ tLog[t][j].ev = "complete" =>
                              (tLog[t][j].rc = {BrokenReturncode} /\ tLog[t][j].over)

C11_Witness ==
    /\ proc[<< 1, 1 >>] = "broken"
    /\ tPc[<< 1, 1 >>] = "done"
    /\ tOver[<< 1, 1 >>]
    /\ chRcs[1][1] = {BrokenReturncode}
    /\ sweepSeen[1] = << "broken" >>

\* the tasks a sweep found running and has called secure_kill for
KillCalled ==
    {threads[k] : k \in {j \in 1 .. Len(threads) :
        \E c \in Chains :
            /\ j <= Len(sweepSeen[c])
            /\ sweepSeen[c][j] = "alive"
            /\ ~(chPc[c] = "kill" /\ sweepPos[c] = j)}}

\* C12: a sweep checks the registry's tasks one by one in registry order and
\* skips none; the tasks asked to terminate are exactly those a sweep found
\* alive at its liveness check, so none whose process was missing, broken or
\* ended at the check; and a sweep that has ended has visited the whole
\* registry and raised the exit(1) request
C12_SweepVisitsEveryTask ==
    /\ \A c \in Chains :
          /\ Len(sweepSeen[c]) <= Len(threads)
          /\ chPc[c] = "sweep" => Len(sweepSeen[c]) = sweepPos[c] - 1
          /\ chPc[c] = "kill" =>
                (Len(sweepSeen[c]) = sweepPos[c] /\ sweepSeen[c][sweepPos[c]] = "alive")
          /\ (chPc[c] = "done" /\ sweepSeen[c] # << >>) =>
                (Len(sweepSeen[c]) = Len(threads) /\ sysExit)
          /\ (chPc[c] = "done" /\ poolStopOnError /\ Truthy(poolRcs[c])) =>
                sweepSeen[c] # << >>
    /\ termReq = KillCalled
    /\ \A t \in termReq : proc[t] \in {"killed", "exited"}

C12_Witness ==
    /\ chPc[2] = "done"
    /\ sweepSeen[2] = << "alive", "exited" >>
    /\ termReq = {<< 1, 1 >>}
    /\ proc[<< 1, 1 >>] = "killed"
    /\ sysExit

\* C13: when run_local_mode returns after the controller and every started
\* chain have ended, the value it returns is the maximum of the chains'
\* returncodes, and it is 0 only if every chain was admitted and every subtask
\* of every chain ran to completion with returncode 0
C13_ReturnsMaxAndZeroOnlyIfAllPassed ==
    [][(/\ mainPc = "summary" /\ mainPc' = "done"
        /\ poolPc = "done"
        /\ \A c \in Chains : chPc[c] \in {"new", "done"}) =>
          /\ exitCode' = PyMax({Returncode(chRcs[c]) : c \in 1 .. total})
          /\ exitCode' = {0} =>
                /\ Len(startOrder) = total
                /\ \A c \in 1 .. total : \A t \in TasksOf(c) :
                      tPc[t] = "done" /\ tRc[t] = {0}]_vars

\* C14: finish_pbs_job is applied to no job more than once, and when
\* run_pbs_mode has exited it was applied once to every tracked job that is in
\* a terminal state, the job's returncode being stored under the job
C14_TerminalJobFinishedOnce ==
    /\ \A j \in 1 .. numJobs : finishCount[j] <= 1
    /\ pbsPc = "done" =>
          \A j \in 1 .. numJobs :
              jobState[j] \in TerminalStates =>
                  (finishCount[j] = 1 /\ pbsRcs[j] = jobRc[j])

\* the jobs finish_pbs_job was applied to
Finished == {j \in 1 .. numJobs : finishCount[j] > 0}

\* C15: run_pbs_mode exits with the maximum of the finished jobs' returncodes,
\* exits with 2 exactly when no job was finished, and so does not exit with 2
\* when every job completed with a returncode of 0
C15_ExitIsMaxAndTwoOnlyIfNoneFinished ==
    pbsPc = "done" =>
        /\ Finished # {} => pbsExit = {IntMax(UNION {jobRc[j] : j \in Finished})}
        /\ pbsExit = {NoReturncode} <=> Finished = {}
        /\ (/\ numJobs >= 1
            /\ \A j \in 1 .. numJobs : jobState[j] = "COMPLETED" /\ jobRc[j] = {0})
           => pbsExit # {NoReturncode}

\* C16: update() and sleep() strictly alternate: no two update() calls and no
\* two sleeps follow one another; run_pbs_mode leaves the loop only with
\* is_running() false, and then no sleep follows the last update()
C16_UpdateAndSleepAlternate ==
    /\ \A k \in 1 .. Len(pbsLog) - 1 : pbsLog[k] # pbsLog[k + 1]
    /\ pbsPc \in {"exit", "done"} =>
          (~IsRunning /\ pbsLog[Len(pbsLog)] = "update")

\* C16, amended: the update() before the loop is followed at once by the
\* loop's first update(); from then on update() and sleep() strictly
\* alternate; run_pbs_mode leaves the loop only with is_running() false, and
\* then no sleep follows the last update()
C16_AlternateInsideLoop ==
    /\ \A k \in 1 .. Len(pbsLog) : k <= 2 => pbsLog[k] = "update"
    /\ \A k \in 2 .. Len(pbsLog) - 1 : pbsLog[k] # pbsLog[k + 1]
    /\ pbsPc \in {"exit", "done"} =>
          (~IsRunning /\ pbsLog[Len(pbsLog)] = "update")

C16_Witness ==
    /\ pbsPc = "done"
    /\ pbsLog = << "update", "update", "sleep", "update" >>
    /\ ~IsRunning

\* C17: a running task whose child process the sweep has killed eventually
\* completes: its returncode is set and is not a success, it is over, its
\* complete-listeners have been called, and its chain has ended and reported
\* its returncode to the pool
C17_KilledTaskStillCompletes ==
    \A t \in Tasks :
        (proc[t] = "killed" /\ tPc[t] = "wait") ~>
            (/\ tPc[t] = "done"
             /\ tOver[t]
             /\ Truthy(tRc[t])
             /\ Len(tLog[t]) = Len(ExpectedEvents)
             /\ Completed(t[1])
             /\ poolRcs[t[1]] = tRc[t])

C17_Witness ==
    /\ proc[<< 1, 1 >>] = "killed"
    /\ << 1, 1 >> \in termReq
    /\ tPc[<< 1, 1 >>] = "done"
    /\ tRc[<< 1, 1 >>] \subseteq KilledCodes
    /\ Completed(1)
    /\ poolRcs[1] = tRc[<< 1, 1 >>]

\* C18: a chain has at most one subtask in flight, and a subtask has been
\* started only when the subtask before it is done: over, its returncode set,
\* all its complete-listeners called and its returncode recorded by the chain
C18_ChainStrictlySequential ==
    \A c \in Chains :
        /\ Cardinality({t \in TasksOf(c) : tPc[t] \notin {"new", "done"}}) <= 1
        /\ chRunning[c] \in {0, 1}
        /\ \A i \in 1 .. lens[c] - 1 :
              tPc[<< c, i + 1 >>] # "new" =>
                  /\ tPc[<< c, i >>] = "done"
                  /\ tOver[<< c, i >>]
                  /\ tRc[<< c, i >>] # None
                  /\ chRcs[c][i] = tRc[<< c, i >>]
                  /\ Len(tLog[<< c, i >>]) = Len(ExpectedEvents)
                  /\ tLog[<< c, i >>][Len(ExpectedEvents)].ev = "complete"

C18_Witness ==
    /\ lens[1] = 2
    /\ tPc[<< 1, 1 >>] = "done"
    /\ tPc[<< 1, 2 >>] = "wait"
    /\ chRunning[1] = 1
    /\ chRcs[1][1] = {0}

\* the subtasks of chain c that have completed
DoneTasks(c) == {t \in TasksOf(c) : tPc[t] = "done"}

\* C19: in every state a chain's returncode is None when none of its subtasks
\* has completed (a chain without subtasks included), and otherwise the
\* maximum of the returncodes of the subtasks that have completed, whatever
\* subtasks have not run
C19_ChainReturncodeOfCompleted ==
    \A c \in Chains :
        Returncode(chRcs[c]) =
            IF DoneTasks(c) = {} THEN None
            ELSE {IntMax(UNION {tRc[t] : t \in DoneTasks(c)})}

C19_Witness ==
    /\ lens[1] = 2
    /\ chStopped[1]
    /\ Completed(1)
    /\ tPc[<< 1, 2 >>] = "new"
    /\ Returncode(chRcs[1]) = {2}

\* C20: every step leaves the entries of the registry in place and in order,
\* adding at most new entries at the end; once the tasks are built no step,
\* a sweep's included, changes the registry at all; and a task that has been
\* started is in the registry, where no task is twice
C20_RegistryAppendOnly ==
    [][/\ Len(threads') >= Len(threads)
       /\ SubSeq(threads', 1, Len(threads)) = threads
       /\ mainPc # "build" => threads' = threads
       /\ \A t \in Tasks :
             tPc'[t] # "new" => \E k \in 1 .. Len(threads') : threads'[k] = t
       /\ \A j, k \in 1 .. Len(threads') :
             j # k => threads'[j] # threads'[k]]_vars

C20_Witness ==
    /\ threads = << << 1, 1 >>, << 2, 1 >> >>
    /\ proc[<< 1, 1 >>] = "broken"
    /\ proc[<< 2, 1 >>] = "killed"
    /\ tPc[<< 2, 1 >>] = "done"
    /\ sysExit
    /\ \A c \in Chains : chPc[c] = "done"

\* C21: once a fail-fast sweep has run to its end, a chain that is between
\* two subtasks, the earlier one having succeeded, does not start the next
\* subtask
C21_NoSubtaskStartedAfterSweep ==
    [][\A c \in Chains : \A i \in 1 .. lens[c] - 1 :
          (/\ sysExit
           /\ tRc[<< c, i >>] = {0}
           /\ tPc[<< c, i + 1 >>] = "new")
          => tPc'[<< c, i + 1 >>] = "new"]_vars

\* C22: run_local_mode leaves its wait loop only when the controller's _run
\* has ended, so that the summary is not read from a pool that has not begun
\* or has not finished admitting its chains
C22_WaitLoopOutlastsController ==
    [][(mainPc = "wait" /\ mainPc' = "summary") => poolPc \in {"end", "done"}]_vars

====
